---- MODULE Spec2Model ----
(***************************************************************************)
(* Model of src/cmd.rs: exec (run a command line in a validated working    *)
(* directory) and get_pwd (explicit directory or the current directory).   *)
(*                                                                         *)
(* The host is part of the state: which executables the search finds, what *)
(* each path is on the filesystem, and what the OS current-directory query *)
(* answers.  Every host is an initial state.  The outcome of the process   *)
(* creation itself (shell missing, permission denied, directory removed    *)
(* after the checks, or a child with some exit code and output) is an      *)
(* input of each call.                                                     *)
(***************************************************************************)
EXTENDS Integers, Sequences, FiniteSets, TLC

\* ------------------------------------------------------------------ bounds
MaxLen == 2
MaxExit == 1
MaxCalls == 2

\* ------------------------------------------------------------ value spaces
\* characters of a command string; " " is the separator exec splits on
Alphabet == {"a", " "}

Cmds == UNION {[1..n -> Alphabet] : n \in 0..MaxLen}

\* paths are component lists; "." components make normalisation observable
Paths == {<<"a">>, <<"a", ".">>}

\* file names an executable search can be configured to find; one of them
\* contains a space, so a search for a whole command line can succeed
Executables == {<<"a">>, <<"a", " ">>}

FileKinds == {"absent", "file", "dir"}

ExitCodes == 0..MaxExit

\* what a child wrote: something on stdout, or something on stderr
Streams == {<<"hello\n", "">>, <<"", "error\n">>}

Children == {[code |-> c, stdout |-> s[1], stderr |-> s[2]] :
                c \in ExitCodes, s \in Streams}

NoChild == [code |-> -1, stdout |-> "", stderr |-> ""]

\* what the OS answers to the process creation: a child, or an errno
SpawnOutcomes ==
    {[so |-> e, child |-> NoChild] : e \in {"ENOENT", "EACCES"}}
        \cup {[so |-> "created", child |-> c] : c \in Children}

None == [some |-> FALSE, v |-> <<>>]

Some(p) == [some |-> TRUE, v |-> p]

Dirs == {None} \cup {Some(p) : p \in Paths}

CurDirs == {[ok |-> FALSE, v |-> <<>>]} \cup {[ok |-> TRUE, v |-> p] : p \in Paths}

VARIABLES installed, fs, curdir, last, spawns, passed, calls, panicked

vars == <<installed, fs, curdir, last, spawns, passed, calls, panicked>>

\* ------------------------------------------------------------------- exec
RECURSIVE SplitFirst(_)
\* cmd.split(' ').next(): the first piece of the split, always present
SplitFirst(s) ==
    IF s = <<>> THEN <<>>
    ELSE IF Head(s) = " " THEN <<>>
    ELSE <<Head(s)>> \o SplitFirst(Tail(s))

ExecutableToken_whole(cmd) == cmd

ExecutableToken(cmd) == SplitFirst(cmd)

\* which(name): Ok when the search finds the name
Which(name) == name \in installed

\* cwd.exists()
Exists(cwd) == fs[cwd] # "absent"

\* cwd.is_dir()
IsDir(cwd) == fs[cwd] = "dir"

Err(kind, text, arg) ==
    [tag |-> "Err", kind |-> kind, text |-> text, arg |-> arg,
     status |-> -1, stdout |-> "", stderr |-> ""]

Ok(child) ==
    [tag |-> "Ok", kind |-> "-", text |-> "-", arg |-> <<>>,
     status |-> child.code, stdout |-> child.stdout, stderr |-> child.stderr]

ErrNotFound(cmd) == Err("NotFound", "Could not find specified command: ", cmd)

ErrInvalidPath_notfound == Err("NotFound", "Specified path is invalid!", <<>>)

ErrInvalidPath == Err("Other", "Specified path is invalid!", <<>>)

ErrNotDir_samemsg == Err("Other", "Specified path is invalid!", <<>>)

ErrNotDir == Err("Other", "Specified path is not a directory", <<>>)

\* the io::ErrorKind the standard library decodes an errno to
DecodeErrorKind(errno) ==
    IF errno = "ENOENT" THEN "NotFound" ELSE "PermissionDenied"

Output_failOnNonzero(so, child) ==
    IF so = "created" /\ child.code = 0 THEN Ok(child)
    ELSE IF so = "created" THEN Err("Other", "command failed", <<>>)
    ELSE Err(DecodeErrorKind(so), "os error", <<>>)

\* Command::new("sh").current_dir(cwd).arg("-c").arg(cmd).output()
Output(so, child) ==
    IF so = "created" THEN Ok(child)
    ELSE Err(DecodeErrorKind(so), "os error", <<>>)

exec_dirFirst(cmd, cwd, so, child) ==
    IF ~Exists(cwd)
    THEN [res |-> ErrInvalidPath, gates |-> <<"exists">>, spawned |-> 0]
    ELSE IF ~Which(ExecutableToken(cmd))
    THEN [res |-> ErrNotFound(cmd), gates |-> <<"exists", "which">>, spawned |-> 0]
    ELSE IF ~IsDir(cwd)
    THEN [res |-> ErrNotDir, gates |-> <<"exists", "which", "is_dir">>, spawned |-> 0]
    ELSE [res |-> Output(so, child), gates |-> <<"exists", "which", "is_dir">>,
          spawned |-> 1]

exec_noDirGate(cmd, cwd, so, child) ==
    IF ~Which(ExecutableToken(cmd))
    THEN [res |-> ErrNotFound(cmd), gates |-> <<"which">>, spawned |-> 0]
    ELSE IF ~Exists(cwd)
    THEN [res |-> ErrInvalidPath, gates |-> <<"which", "exists">>, spawned |-> 0]
    ELSE [res |-> Output(so, child), gates |-> <<"which", "exists">>,
          spawned |-> 1]

\* exec(cmd, cwd): the result, the gates evaluated in order, and the number
\* of process creations attempted
exec(cmd, cwd, so, child) ==
    IF ~Which(ExecutableToken(cmd))
    THEN [res |-> ErrNotFound(cmd), gates |-> <<"which">>, spawned |-> 0]
    ELSE IF ~Exists(cwd)
    THEN [res |-> ErrInvalidPath, gates |-> <<"which", "exists">>, spawned |-> 0]
    ELSE IF ~IsDir(cwd)
    THEN [res |-> ErrNotDir, gates |-> <<"which", "exists", "is_dir">>,
          spawned |-> 0]
    ELSE [res |-> Output(so, child), gates |-> <<"which", "exists", "is_dir">>,
          spawned |-> 1]

\* ---------------------------------------------------------------- get_pwd
get_pwd_sentinel(dir) ==
    IF ~curdir.ok THEN [panic |-> FALSE, path |-> <<".">>]
    ELSE [panic |-> FALSE, path |-> IF dir.some THEN dir.v ELSE curdir.v]

\* get_pwd(dir): the current directory is queried first, whatever dir is
get_pwd(dir) ==
    IF ~curdir.ok THEN [panic |-> TRUE, path |-> <<>>]
    ELSE [panic |-> FALSE, path |-> IF dir.some THEN dir.v ELSE curdir.v]

\* ------------------------------------------------------------ specification
NoRes == [tag |-> "-", kind |-> "-", text |-> "-", arg |-> <<>>,
          status |-> -1, stdout |-> "", stderr |-> ""]

NoCall ==
    [op |-> "none", cmd |-> <<>>, cwd |-> <<>>, dir |-> None, so |-> "-",
     child |-> NoChild, res |-> NoRes, gates |-> <<>>, spawned |-> 0,
     path |-> <<>>]

\* the token as the documentation words it: the text before the first
\* space, or the whole string when it has none
TokenOf(cmd) ==
    IF \E i \in 1..Len(cmd) : cmd[i] = " "
    THEN SubSeq(cmd, 1, (CHOOSE i \in 1..Len(cmd) :
                            /\ cmd[i] = " "
                            /\ \A j \in 1..(i - 1) : cmd[j] # " ") - 1)
    ELSE cmd

Init ==
    /\ installed \in SUBSET Executables
    /\ fs \in [Paths -> FileKinds]
    /\ curdir \in CurDirs
    /\ last = NoCall
    /\ spawns = 0
    /\ passed = 0
    /\ calls = 0
    /\ panicked = FALSE

Exec(cmd, cwd, so, child) ==
    /\ ~panicked
    /\ calls < MaxCalls
    /\ LET r == exec(cmd, cwd, so, child) IN
       /\ last' = [NoCall EXCEPT !.op = "exec", !.cmd = cmd, !.cwd = cwd,
                                 !.so = IF r.spawned > 0 THEN so ELSE "-",
                                 !.child = IF r.spawned > 0 /\ so = "created"
                                           THEN child ELSE NoChild,
                                 !.res = r.res, !.gates = r.gates,
                                 !.spawned = r.spawned]
       /\ spawns' = spawns + r.spawned
    /\ passed' = passed + (IF TokenOf(cmd) \in installed /\ fs[cwd] = "dir"
                           THEN 1 ELSE 0)
    /\ calls' = calls + 1
    /\ UNCHANGED <<installed, fs, curdir, panicked>>

GetPwd(dir) ==
    /\ ~panicked
    /\ calls < MaxCalls
    /\ LET r == get_pwd(dir) IN
       /\ last' = [NoCall EXCEPT !.op = "get_pwd", !.dir = dir, !.path = r.path]
       /\ panicked' = r.panic
    /\ calls' = calls + 1
    /\ UNCHANGED <<installed, fs, curdir, spawns, passed>>

Next ==
    \/ \E cmd \in Cmds, cwd \in Paths, sp \in SpawnOutcomes :
          Exec(cmd, cwd, sp.so, sp.child)
    \/ \E dir \in Dirs : GetPwd(dir)

Spec == Init /\ [][Next]_vars

\* ------------------------------------------------------------------ claims
\* The host does not change during a run, so the host a finished call saw
\* is the host of the current state.
IsExec == last.op = "exec"

IsGetPwd == last.op = "get_pwd"

Found == TokenOf(last.cmd) \in installed

IsErr(kind) == last.res.tag = "Err" /\ last.res.kind = kind

\* C1: when the executable token (the text before the first space, or the
\* whole string) is not found by the search, exec returns the NotFound error
\* carrying the original command string and attempts no process creation,
\* whatever the working directory is.
C1_NotFoundNoSpawn ==
    (IsExec /\ ~Found) =>
        /\ IsErr("NotFound")
        /\ last.res.text = "Could not find specified command: "
        /\ last.res.arg = last.cmd
        /\ last.spawned = 0
        /\ last.gates = <<"which">>

C1_Witness ==
    /\ IsExec /\ ~Found
    /\ last.cmd = <<"a", " ">>
    /\ <<"a", " ">> \in installed
    /\ fs[last.cwd] = "dir"
    /\ IsErr("NotFound")

\* C2 (as stated): for every working directory that does not exist, exec
\* returns the invalid-working-directory error (kind Other), for every
\* command string, found or not.
C2_Original ==
    (IsExec /\ fs[last.cwd] = "absent") => IsErr("Other")

\* C2 (amended): for every working directory that does not exist and every
\* command string whose executable token is found, exec returns the
\* invalid-working-directory error (kind Other) and spawns nothing.
C2_AbsentDirWhenFound ==
    (IsExec /\ Found /\ fs[last.cwd] = "absent") =>
        /\ IsErr("Other")
        /\ last.spawned = 0

C2_Witness ==
    /\ IsExec /\ Found /\ fs[last.cwd] = "absent"
    /\ IsErr("Other")

\* C3 (as stated): for every working directory that exists but is not a
\* directory, exec returns the invalid-working-directory error, of the same
\* kind as for a nonexistent path and with the different message "not a
\* directory".
C3_Original ==
    (IsExec /\ fs[last.cwd] = "file") =>
        /\ IsErr("Other")
        /\ last.res.text = "Specified path is not a directory"
        /\ last.res.text # "Specified path is invalid!"

\* C3 (amended): the same, for every command string whose executable token
\* is found.
C3_FileDirWhenFound ==
    (IsExec /\ Found /\ fs[last.cwd] = "file") =>
        /\ IsErr("Other")
        /\ last.res.text = "Specified path is not a directory"
        /\ last.res.text # "Specified path is invalid!"
        /\ last.spawned = 0

C3_Witness ==
    /\ IsExec /\ Found /\ fs[last.cwd] = "file"
    /\ IsErr("Other")
    /\ last.res.text = "Specified path is not a directory"

\* C4: when the token is found, the working directory is a directory and the
\* OS creates the child, exec returns Ok carrying the child's stdout, stderr
\* and exit status, for every exit code; a nonzero code is data, never an
\* error, and code 0 is a successful status.
C4_ChildExitIsData ==
    (IsExec /\ Found /\ fs[last.cwd] = "dir" /\ last.so = "created") =>
        /\ last.res.tag = "Ok"
        /\ last.res.status = last.child.code
        /\ last.res.stdout = last.child.stdout
        /\ last.res.stderr = last.child.stderr
        /\ last.child.code \in ExitCodes
        /\ (last.child.code = 0 => last.res.status = 0)

C4_Witness ==
    /\ IsExec /\ Found /\ fs[last.cwd] = "dir" /\ last.so = "created"
    /\ last.child.code # 0
    /\ last.res.tag = "Ok"
    /\ last.res.status # 0

\* C5: for every path p, get_pwd(Some(p)) returns exactly p.
C5_SomeIsIdentity ==
    (IsGetPwd /\ last.dir.some) =>
        /\ ~panicked
        /\ last.path = last.dir.v

\* C6: get_pwd(None) returns what the OS current-directory query yields when
\* the query succeeds, and aborts without returning a path when it fails.
C6_NoneIsCurrentDir ==
    (IsGetPwd /\ ~last.dir.some) =>
        /\ curdir.ok => (~panicked /\ last.path = curdir.v)
        /\ ~curdir.ok => (panicked /\ last.path = <<>>)

C6_Witness ==
    /\ IsGetPwd /\ ~last.dir.some
    /\ curdir.ok /\ curdir.v = <<"a", ".">>
    /\ last.path = <<"a", ".">>
    /\ ~panicked

\* C7: nothing aborts the process except the failed current-directory query
\* of get_pwd(None): exec always returns a result value, and get_pwd with an
\* explicit directory never aborts.
C7_OnlyNoneAborts ==
    /\ IsExec => (last.res.tag \in {"Ok", "Err"} /\ ~panicked)
    /\ panicked => (IsGetPwd /\ ~last.dir.some /\ ~curdir.ok)

\* C8: the gates run in the order search, exists, is-directory; the first
\* failing gate decides the result and no later gate is evaluated.
C8_GateOrder ==
    IsExec =>
        /\ ~Found =>
              /\ last.gates = <<"which">>
              /\ IsErr("NotFound")
        /\ (Found /\ fs[last.cwd] = "absent") =>
              /\ last.gates = <<"which", "exists">>
              /\ IsErr("Other")
              /\ last.res.text = "Specified path is invalid!"
        /\ (Found /\ fs[last.cwd] = "file") =>
              /\ last.gates = <<"which", "exists", "is_dir">>
              /\ IsErr("Other")
              /\ last.res.text = "Specified path is not a directory"
        /\ (Found /\ fs[last.cwd] = "dir") =>
              last.gates = <<"which", "exists", "is_dir">>
        /\ (~Found \/ fs[last.cwd] # "dir") => last.spawned = 0

C8_Witness ==
    /\ IsExec /\ ~Found /\ fs[last.cwd] = "absent"
    /\ IsErr("NotFound")
    /\ last.gates = <<"which">>

\* C9: each call attempts exactly one process creation when the three gates
\* pass and none otherwise, so the attempts total the calls that passed
\* validation; and the outcome class of a call is fixed by that call's own
\* inputs, however many calls came before.
C9_OneSpawnPerValidCall ==
    /\ spawns = passed
    /\ last.spawned \in {0, 1}
    /\ IsExec =>
          /\ last.spawned = 1 <=> (Found /\ fs[last.cwd] = "dir")
          /\ last.res.tag = "Ok" <=>
                (Found /\ fs[last.cwd] = "dir" /\ last.so = "created")

C9_Witness ==
    /\ calls = 2
    /\ spawns = 1
    /\ passed = 1
    /\ IsExec
    /\ last.spawned = 0

\* C10: the error kind NotFound is returned only when the executable token
\* was not found, and the kind Other only when a directory gate failed; a
\* failed process creation yields neither kind.
C10_KindsTellFailuresApart ==
    IsExec =>
        /\ IsErr("NotFound") => ~Found
        /\ IsErr("Other") => (Found /\ fs[last.cwd] # "dir")
        /\ (last.spawned = 1 /\ last.res.tag = "Err") =>
              last.res.kind \notin {"NotFound", "Other"}

====
